---------------------------- MODULE Spec2Model ----------------------------
(***************************************************************************)
(* A model of ssh/connection.go: the raw connection adapter (SendMessage,  *)
(* ReceiveMessage, Disconnect, Close), the connection metadata getters,    *)
(* DiscardRequests, and the collaborators the adapter is built on (the     *)
(* packet transport, the wire codec, the multiplexer), which are modelled  *)
(* from their contracts because their code is in other files.              *)
(***************************************************************************)
EXTENDS Integers, Sequences, FiniteSets, TLC

VARIABLES
    \* ---- connection: c.transport and c.sshConn.conn ----
    wire,          \* packets the transport has written to the peer, in order
    inbound,       \* packets sent by the peer that readPacket has not returned
    sock,          \* c.sshConn.conn: "open", "closed" (Close) or "failed" (I/O)
    rpc,           \* the task inside ReceiveMessage: "idle" or "reading"
    ret,           \* what the most recently returned call returned
    disconnected,  \* history: a Disconnect call has returned nil
    decodeFailed,  \* history: a ReceiveMessage call has returned a decode error
    \* ---- sshConn metadata and the buffers handed to callers ----
    user, sessionID, clientVersion, serverVersion,
    heap,          \* memory: the byte slice at each address (1, 2, ...)
    returned,      \* the slices the getters have returned: getter and address
    \* ---- DiscardRequests and the request channel it ranges over ----
    reqChan,       \* the requests buffered in the Go channel `in`
    chanClosed,    \* the channel has been closed by its producer
    produced,      \* history: every request sent on the channel, in order
    dpc,           \* DiscardRequests: "range", "body" or "returned"
    cur,           \* the loop variable req
    replies,       \* the Reply calls made so far: request, ok, payload
    \* ---- concurrent SendMessage calls, at the grain of the socket ----
    sender,        \* per task: where it is in SendMessage / writePacket
    txLock,        \* the task holding the transport's write lock, or 0
    stream,        \* the bytes put on the socket, each with its call and
                   \* whether it starts a packet
    calls,         \* history: each SendMessage call, the calls that had
                   \* returned when it was made, and whether it has returned
    \* ---- the multiplexer behind Conn.SendRequest and Conn.Wait ----
    loopErr,       \* why the processing loop ended; kind "running" before
    lastRead,      \* history: the last packet the loop read
    waitRet,       \* what Wait returned; kind "pending" before
    caller,        \* per global request: its SendRequest call and result
    pendingQ,      \* requests awaiting a reply, oldest first
    peerSeen       \* how many packets of the wire the peer has handled

connVars == <<wire, inbound, sock, rpc, ret, disconnected, decodeFailed>>
metaVars == <<user, sessionID, clientVersion, serverVersion>>
bufVars  == <<heap, returned>>
drainVars == <<reqChan, chanClosed, produced, dpc, cur, replies>>
txVars    == <<sender, txLock, stream, calls>>
muxVars   == <<loopErr, lastRead, waitRet, caller, pendingQ, peerSeen>>
vars     == <<connVars, metaVars, bufVars, drainVars, txVars, muxVars>>

\* What the operations of one component leave alone.
connRest  == <<metaVars, bufVars, drainVars, txVars, muxVars>>
metaRest  == <<connVars, drainVars, txVars, muxVars>>
drainRest == <<connVars, metaVars, bufVars, txVars, muxVars>>
txRest    == <<connVars, metaVars, bufVars, drainVars, muxVars>>
muxRest   == <<rpc, ret, disconnected, decodeFailed, metaVars, bufVars,
               drainVars, txVars>>

--------------------------------------------------------------------------
\* Bounds of the model.
MaxWire    == 2    \* packets written to the transport
MaxInbound == 1    \* packets queued from the peer
MaxPayload == 2    \* payload length of the packets tried on decode
MaxBufLen   == 2   \* length of the session ID
MaxReturned == 2   \* buffers handed out by the metadata getters
MaxRequests == 4   \* requests sent on the channel DiscardRequests drains
ChanCap     == 2   \* buffer size of that channel
NumSenders   == 2  \* tasks calling SendMessage concurrently
MaxSendCalls == 3  \* SendMessage calls made by those tasks together
NumRequests  == 2  \* global requests sent through SendRequest
MaxTrip      == 1  \* messages sent from one end to the other
MaxCloseCalls == 2 \* SendMessage and Disconnect calls made around a Close
MaxQueue      == 2 \* packets waiting in the transport for ReceiveMessage
MaxFrameWire  == 1 \* packets written while the metadata is watched
MaxFrameGets  == 1 \* getter calls made while the metadata is watched

--------------------------------------------------------------------------
\* DisconnectReason constants.
HostNotAllowedToConnect == 1
ProtocolError == 2
KeyExchangeFailed == 3
\* 4 is reserved for future use.
MacError == 5
CompressionError == 6
ServiceNotAvailable == 7
ProtocolVersionNotSupported == 8
HostKeyNotVerifiable == 9
ConnectionLost == 10
ByApplication == 11
TooManyConnections == 12
AuthCancelledByUser == 13
NoMoreAuthMethodsAvailable == 14
IllegalUserName == 15

\* (Faulty variant: the reserved code listed as a constant too.)
DefinedReasonsWithReserved ==
    { HostNotAllowedToConnect, ProtocolError, KeyExchangeFailed, 4, MacError,
      CompressionError, ServiceNotAvailable, ProtocolVersionNotSupported,
      HostKeyNotVerifiable, ConnectionLost, ByApplication, TooManyConnections,
      AuthCancelledByUser, NoMoreAuthMethodsAvailable, IllegalUserName }
\* The constants of the const block.
DefinedReasons ==
    { HostNotAllowedToConnect, ProtocolError, KeyExchangeFailed, MacError,
      CompressionError, ServiceNotAvailable, ProtocolVersionNotSupported,
      HostKeyNotVerifiable, ConnectionLost, ByApplication, TooManyConnections,
      AuthCancelledByUser, NoMoreAuthMethodsAvailable, IllegalUserName }

\* A Go string / []byte is a sequence of bytes.
Bytes == {0, 1}
Bye   == <<98, 121, 101>>

--------------------------------------------------------------------------
\* The message variant set.

\* The 14 types that have an isMessageMarker method.
ConnKinds ==
    { "globalRequest", "globalRequestSuccess", "globalRequestFailure",
      "channelOpen", "channelOpenConfirm", "channelOpenFailure",
      "channelData", "channelExtendedData", "windowAdjust", "channelEOF",
      "channelRequest", "channelRequestSuccess", "channelRequestFailure",
      "channelClose" }

\* (Faulty variant: ChannelCloseMsg left without the marker method.)
IsMessageNarrow(v) == v.kind \in ConnKinds \ {"channelClose"}
\* (Faulty variant: disconnectMsg given the marker method too.)
IsMessageWide(v) == v.kind \in ConnKinds \cup {"disconnect"}
\* A value is a Message iff its type has the marker method.
IsMessage(v) == v.kind \in ConnKinds

\* The leading type byte of each message the codec knows (RFC 4253/4254).
msgType ==
    [ disconnect |-> 1,
      globalRequest |-> 80, globalRequestSuccess |-> 81,
      globalRequestFailure |-> 82,
      channelOpen |-> 90, channelOpenConfirm |-> 91, channelOpenFailure |-> 92,
      windowAdjust |-> 93, channelData |-> 94, channelExtendedData |-> 95,
      channelEOF |-> 96, channelClose |-> 97, channelRequest |-> 98,
      channelRequestSuccess |-> 99, channelRequestFailure |-> 100 ]

DecodeKinds == DOMAIN msgType

\* A decoded value: its type, its numeric field and its string field.  A
\* disconnectMsg is (Reason uint32, Message string); every connection message
\* is modelled by one numeric field.
Msg(k, n, s) == [kind |-> k, n |-> n, s |-> s]

\* Go's nil, as a decoded value and as an error.
NilMsg == Msg("nil", 0, << >>)
NoErr  == [kind |-> "nil", T |-> ""]
Err(k) == [kind |-> k, T |-> ""]

\* Marshal: the type byte followed by the fields, a string length-prefixed.
Marshal(msg) ==
    IF msg.kind = "disconnect"
    THEN <<msgType.disconnect, msg.n, Len(msg.s)>> \o msg.s
    ELSE <<msgType[msg.kind], msg.n>>

\* decode: the variant selected by the type byte, filled from the rest of the
\* packet; an unknown type byte or a payload that does not fit is an error.
decode(packet) ==
    IF Len(packet) = 0 THEN [msg |-> NilMsg, err |-> Err("ErrDecode")]
    ELSE LET ks == {k \in DecodeKinds : msgType[k] = packet[1]}
             body == Tail(packet)
         IN  IF ks = {} THEN [msg |-> NilMsg, err |-> Err("ErrDecode")]
             ELSE LET k == CHOOSE x \in ks : TRUE
                  IN  IF k = "disconnect"
                      THEN IF Len(body) >= 2 /\ body[2] = Len(body) - 2
                           THEN [msg |-> Msg(k, body[1], SubSeq(body, 3, Len(body))),
                                 err |-> NoErr]
                           ELSE [msg |-> NilMsg, err |-> Err("ErrDecode")]
                      ELSE IF Len(body) = 1
                           THEN [msg |-> Msg(k, body[1], << >>), err |-> NoErr]
                           ELSE [msg |-> NilMsg, err |-> Err("ErrDecode")]

\* fmt's %T: the dynamic type of the argument, "<nil>" for a nil interface.
TypeName(v) == IF v.kind = "nil" THEN "<nil>" ELSE v.kind

--------------------------------------------------------------------------
\* The transport and the socket.

\* writePacket: one whole packet appended to the wire, or an I/O error and
\* nothing written.
writePacket(w, s, packet) ==
    IF s = "open" THEN [wire |-> Append(w, packet), err |-> NoErr]
    ELSE IF s = "closed" THEN [wire |-> w, err |-> Err("ErrClosed")]
    ELSE [wire |-> w, err |-> Err("ErrIO")]

\* readPacket, once it can return: the next packet in arrival order, or the
\* error of a socket that is closed or has failed.  A packet that arrived
\* before the socket went down may or may not still be delivered.
readPacketResults(q, s) ==
    (IF q # << >>
     THEN {[packet |-> Head(q), rest |-> Tail(q), err |-> NoErr]}
     ELSE {})
    \cup
    (IF s = "closed" THEN {[packet |-> << >>, rest |-> q, err |-> Err("ErrClosed")]}
     ELSE IF s = "failed" THEN {[packet |-> << >>, rest |-> q, err |-> Err("ErrIO")]}
     ELSE {})

\* net.Conn.Close: closes the socket; closing a closed socket is an error.
connClose(s) ==
    IF s = "closed" THEN [sock |-> "closed", err |-> Err("ErrClosed")]
    ELSE [sock |-> "closed", err |-> NoErr]

--------------------------------------------------------------------------
\* DiscardRequests.

\* A request on the channel: which one it is, and its WantReply field.
Request(id, want) == [id |-> id, WantReply |-> want]
NoRequest == Request(0, FALSE)

\* Request.Reply(ok, payload), as the record of the call; payload nil is the
\* empty byte sequence.
Reply(req, ok, payload) == [id |-> req.id, ok |-> ok, payload |-> payload]

\* The body of the loop: the Reply calls made for one request.
\* (Faulty variant: WantReply is not tested.)
DiscardBodyAlways(req) == <<Reply(req, FALSE, << >>)>>
DiscardBody(req) ==
    IF req.WantReply THEN <<Reply(req, FALSE, << >>)>> ELSE << >>

\* No request channel in use.
DrainIdle ==
    /\ reqChan = << >>
    /\ chanClosed = FALSE
    /\ produced = << >>
    /\ dpc = "range"
    /\ cur = NoRequest
    /\ replies = << >>

\* No task is inside SendMessage.
Senders == 1..NumSenders
SenderIdle == [pc |-> "idle", call |-> 0, todo |-> << >>, off |-> 0]
TxIdle ==
    /\ sender = [t \in Senders |-> SenderIdle]
    /\ txLock = 0
    /\ stream = << >>
    /\ calls = << >>

\* The errors of Conn.Wait and Conn.SendRequest.  DisconnectError is the
\* struct {Reason, Message}; any other error is passed on as it is.
MuxErr(k) == [kind |-> k, Reason |-> 0, Message |-> << >>]
\* (Faulty variant of DisconnectError: the message is dropped.)
DisconnectErrorNoMessage(reason, message) ==
    [kind |-> "DisconnectError", Reason |-> reason, Message |-> << >>]
DisconnectError(reason, message) ==
    [kind |-> "DisconnectError", Reason |-> reason, Message |-> message]

\* The multiplexer has sent nothing and its loop is running.
Requests == 1..NumRequests
CallerIdle == [pc |-> "idle", want |-> FALSE, ok |-> FALSE, tag |-> 0,
               err |-> MuxErr("nil")]
MuxIdle ==
    /\ loopErr = MuxErr("running")
    /\ lastRead = << >>
    /\ waitRet = MuxErr("pending")
    /\ caller = [r \in Requests |-> CallerIdle]
    /\ pendingQ = << >>
    /\ peerSeen = 0

--------------------------------------------------------------------------
\* The raw connection adapter.

\* connection.SendMessage: Marshal, then one writePacket.  First as the
\* sequence of writePacket calls it makes, then as the call on a transport
\* nobody else is writing to.
\* (Faulty variant: type byte and fields go out in two writePacket calls.)
SendMessageTwoWrites(msg) == << <<Marshal(msg)[1]>>, Tail(Marshal(msg)) >>
SendMessageWrites(msg) == <<Marshal(msg)>>

\* The writePacket calls of one adapter call, made in order on a transport
\* nobody else is writing to: a failed call ends the sequence with its error.
\* ncalls counts the writePacket calls made.
RECURSIVE WriteAll(_, _, _)
WriteAll(w, s, packets) ==
    IF packets = << >> THEN [wire |-> w, err |-> NoErr, ncalls |-> 0]
    ELSE LET r == writePacket(w, s, Head(packets))
         IN  IF r.err # NoErr THEN [wire |-> r.wire, err |-> r.err, ncalls |-> 1]
             ELSE LET t == WriteAll(r.wire, s, Tail(packets))
                  IN  [t EXCEPT !.ncalls = @ + 1]

\* (Faulty variant: a failed write is tried once more.)
SendMessageRetry(w, s, msg) ==
    LET r == WriteAll(w, s, SendMessageWrites(msg))
    IN  IF r.err = NoErr THEN r
        ELSE [WriteAll(w, s, SendMessageWrites(msg)) EXCEPT !.ncalls = @ + r.ncalls]
SendMessageCall(w, s, msg) == WriteAll(w, s, SendMessageWrites(msg))

\* connection.Disconnect: a disconnectMsg with uint32(reason) and the message,
\* marshalled and written like any packet.  DisconnectReason is itself a
\* uint32, so the conversion keeps every value.
DisconnectWrites(reason, message) ==
    <<Marshal(Msg("disconnect", reason, message))>>
\* (Faulty variant: a reason that is no defined constant goes out as
\* ProtocolError.)
DisconnectKnownOnly(w, s, reason, message) ==
    WriteAll(w, s, DisconnectWrites(
        IF reason \in DefinedReasons THEN reason ELSE ProtocolError, message))
DisconnectCall(w, s, reason, message) ==
    WriteAll(w, s, DisconnectWrites(reason, message))

\* msg.(Message): the value and true, or the zero value (nil) and false.
TypeAssert(v) ==
    IF IsMessage(v) THEN [msg |-> v, ok |-> TRUE]
    ELSE [msg |-> NilMsg, ok |-> FALSE]

\* connection.ReceiveMessage after readPacket has returned rp.  In
\*     if msg, ok := msg.(Message); !ok { ... Errorf("...%T", msg) }
\* the msg declared by the if statement shadows the decoded value, so the
\* value formatted by %T is the result of the failed assertion.
ReceiveMessageResult(rp) ==
    IF rp.err # NoErr THEN [msg |-> NilMsg, err |-> rp.err]
    ELSE LET d == decode(rp.packet)
         IN  IF d.err # NoErr THEN [msg |-> NilMsg, err |-> d.err]
             ELSE LET a == TypeAssert(d.msg)
                  IN  IF ~a.ok
                      THEN [msg |-> NilMsg,
                            err |-> [kind |-> "NotValidConnectionMessage",
                                     T |-> TypeName(a.msg)]]
                      ELSE [msg |-> a.msg, err |-> NoErr]

\* connection.Close: closes the socket, whatever the adapter has done before,
\* and makes no writePacket call.
\* (Faulty variant: a disconnect message is sent before the socket is closed.)
CloseWritesDisconnect == <<Marshal(Msg("disconnect", ByApplication, << >>))>>
CloseWrites == << >>
\* (Faulty variant: the socket is left as it is.)
CloseNothing(s) == [sock |-> s, err |-> NoErr]
CloseCall(s) == connClose(s)

--------------------------------------------------------------------------
\* Inputs of the adapter model.
SendMsgs    == {Msg("channelData", 0, << >>), Msg("globalRequest", 1, << >>)}
Reasons     == {ByApplication}
Texts       == {Bye}
PeerPackets ==
    { Marshal(Msg("channelData", 0, << >>)),
      Marshal(Msg("globalRequest", 1, << >>)),
      Marshal(Msg("disconnect", ByApplication, Bye)),
      <<255, 0>>,                    \* no such message type
      <<msgType.channelEOF>> }       \* a known type, payload cut short

\* The result record of a call.  arg: the message the caller gave; ioErr: the
\* error the transport returned to the call; ncalls: the writePacket or
\* readPacket calls it made; after: the history flags when the call was made;
\* wrote: the call appended to the wire; pkt: the packet it consumed.
Ret(op, arg, ioErr, ncalls, err, msg, wrote, pkt) ==
    [op |-> op, arg |-> arg, ioErr |-> ioErr, ncalls |-> ncalls,
     err |-> err, msg |-> msg, wrote |-> wrote, pkt |-> pkt,
     afterDisconnect |-> disconnected, afterDecodeError |-> decodeFailed]

\* No call has returned yet.
NoRet ==
    [op |-> "none", arg |-> NilMsg, ioErr |-> NoErr, ncalls |-> 0,
     err |-> NoErr, msg |-> NilMsg, wrote |-> FALSE,
     pkt |-> << >>, afterDisconnect |-> FALSE, afterDecodeError |-> FALSE]

ConnInit ==
    /\ wire = << >>
    /\ inbound = << >>
    /\ sock = "open"
    /\ rpc = "idle"
    /\ ret = NoRet
    /\ disconnected = FALSE
    /\ decodeFailed = FALSE

\* The metadata of the connection under test: set once at construction.
MetaInitFixed ==
    /\ user = <<117>>
    /\ heap = << <<1, 2>>, <<3>>, <<4>> >>
    /\ sessionID = 1
    /\ clientVersion = 2
    /\ serverVersion = 3
    /\ returned = << >>

Init == ConnInit /\ MetaInitFixed /\ DrainIdle /\ TxIdle /\ MuxIdle

SendMessage(msg) ==
    /\ sock = "open" => Len(wire) < MaxWire
    /\ LET r == SendMessageCall(wire, sock, msg)
       IN  /\ wire' = r.wire
           /\ ret' = Ret("SendMessage", msg,
                         writePacket(wire, sock, Marshal(msg)).err, r.ncalls,
                         r.err, NilMsg, r.wire # wire, << >>)
    /\ UNCHANGED <<inbound, sock, rpc, disconnected, decodeFailed, connRest>>

Disconnect(reason, message) ==
    /\ sock = "open" => Len(wire) < MaxWire
    /\ LET r == DisconnectCall(wire, sock, reason, message)
       IN  /\ wire' = r.wire
           /\ ret' = Ret("Disconnect", Msg("disconnect", reason, message),
                         writePacket(wire, sock, << >>).err, r.ncalls,
                         r.err, NilMsg, r.wire # wire, << >>)
           /\ disconnected' = (disconnected \/ r.err = NoErr)
    /\ UNCHANGED <<inbound, sock, rpc, decodeFailed, connRest>>

\* ReceiveMessage enters readPacket, where it blocks until a packet or an
\* error is there.
ReceiveCall ==
    /\ rpc = "idle"
    /\ rpc' = "reading"
    /\ UNCHANGED <<wire, inbound, sock, ret, disconnected, decodeFailed, connRest>>

\* (Faulty variant: a packet that does not yield a message is left at the
\* head of the queue.)
ReceiveReturnPeek ==
    /\ rpc = "reading"
    /\ \E rp \in readPacketResults(inbound, sock) :
          LET r == ReceiveMessageResult(rp)
          IN  /\ inbound' = IF r.err = NoErr THEN rp.rest ELSE inbound
              /\ ret' = Ret("ReceiveMessage", NilMsg, rp.err, 1,
                            r.err, r.msg, FALSE, rp.packet)
              /\ decodeFailed' =
                    (decodeFailed \/ r.err = Err("ErrDecode"))
    /\ rpc' = "idle"
    /\ UNCHANGED <<wire, sock, disconnected, connRest>>
ReceiveReturn ==
    /\ rpc = "reading"
    /\ \E rp \in readPacketResults(inbound, sock) :
          LET r == ReceiveMessageResult(rp)
          IN  /\ inbound' = rp.rest
              /\ ret' = Ret("ReceiveMessage", NilMsg, rp.err, 1,
                            r.err, r.msg, FALSE, rp.packet)
              /\ decodeFailed' =
                    (decodeFailed \/ r.err = Err("ErrDecode"))
    /\ rpc' = "idle"
    /\ UNCHANGED <<wire, sock, disconnected, connRest>>

\* (Faulty variant: Close refuses to close while a write holds the lock.)
CloseUnlessWriting ==
    /\ IF txLock = 0
       THEN /\ sock' = CloseCall(sock).sock
            /\ ret' = Ret("Close", NilMsg, NoErr, 0,
                          CloseCall(sock).err, NilMsg, FALSE, << >>)
       ELSE /\ sock' = sock
            /\ ret' = Ret("Close", NilMsg, NoErr, 0,
                          Err("ErrBusy"), NilMsg, FALSE, << >>)
    /\ UNCHANGED <<wire, inbound, rpc, disconnected, decodeFailed, connRest>>
Close ==
    /\ LET w == WriteAll(wire, sock, CloseWrites)
           r == CloseCall(sock)
       IN  /\ wire' = w.wire
           /\ sock' = r.sock
           /\ ret' = Ret("Close", NilMsg, NoErr, w.ncalls,
                         r.err, NilMsg, w.wire # wire, << >>)
    /\ UNCHANGED <<inbound, rpc, disconnected, decodeFailed, connRest>>

\* The peer writes a packet; it arrives while the socket is up.
PeerSend(packet) ==
    /\ sock = "open"
    /\ Len(inbound) < MaxInbound
    /\ inbound' = Append(inbound, packet)
    /\ UNCHANGED <<wire, sock, rpc, ret, disconnected, decodeFailed, connRest>>

\* The connection breaks underneath the transport.
TransportFail ==
    /\ sock = "open"
    /\ sock' = "failed"
    /\ UNCHANGED <<wire, inbound, rpc, ret, disconnected, decodeFailed, connRest>>

Next ==
    \/ \E msg \in SendMsgs : SendMessage(msg)
    \/ \E reason \in Reasons, message \in Texts : Disconnect(reason, message)
    \/ ReceiveCall
    \/ ReceiveReturn
    \/ Close
    \/ \E packet \in PeerPackets : PeerSend(packet)
    \/ TransportFail

Spec == Init /\ [][Next]_vars

--------------------------------------------------------------------------
\* The metadata holder.  A []byte is a reference: the fields of sshConn and
\* the values the getters return are addresses into heap.

\* make([]byte, n): n zero bytes.
make(n) == [i \in 1..n |-> 0]

\* copy(dst, src): the first min(len(dst), len(src)) bytes of src over dst.
copy(dst, src) ==
    [i \in 1..Len(dst) |-> IF i <= Len(src) THEN src[i] ELSE dst[i]]

\* dup: a new slice of the same length, filled by copy.  Given the memory and
\* the address of src; returns the memory and the address of dst.
\* (Faulty variant: the arguments of copy are swapped, which writes the new
\* slice's zero bytes over src.)
dupSwapped(h, src) ==
    [heap |-> Append([h EXCEPT ![src] = copy(h[src], make(Len(h[src])))],
                     make(Len(h[src]))),
     addr |-> Len(h) + 1]
\* (Faulty variant: src itself is returned.)
dupAlias(h, src) == [heap |-> h, addr |-> src]
dup(h, src) ==
    [heap |-> Append(h, copy(make(Len(h[src])), h[src])), addr |-> Len(h) + 1]

\* The field each byte-slice getter reads.
Field(getter) ==
    CASE getter = "SessionID" -> sessionID
      [] getter = "ClientVersion" -> clientVersion
      [] getter = "ServerVersion" -> serverVersion

Getters == {"SessionID", "ClientVersion", "ServerVersion"}
StoredAddrs == {sessionID, clientVersion, serverVersion}

Bufs == UNION {[1..n -> Bytes] : n \in 0..MaxBufLen}

InitMeta ==
    /\ ConnInit
    /\ DrainIdle
    /\ TxIdle
    /\ MuxIdle
    /\ user = <<117>>
    /\ \E sid \in Bufs, cv \in {<<7>>, <<7, 8>>} :
          heap = <<sid, cv, <<9>> >>
    /\ sessionID = 1
    /\ clientVersion = 2
    /\ serverVersion = 3
    /\ returned = << >>

\* sshConn.SessionID, ClientVersion, ServerVersion: return dup(field).
Get(getter) ==
    /\ Len(returned) < MaxReturned
    /\ LET r == dup(heap, Field(getter))
       IN  /\ heap' = r.heap
           /\ returned' = Append(returned, [getter |-> getter, addr |-> r.addr])
    /\ UNCHANGED <<metaRest, metaVars>>

\* A caller writes byte b at index i of the k-th buffer it was handed.
WriteBuffer(k, i, b) ==
    /\ k \in DOMAIN returned
    /\ i \in DOMAIN heap[returned[k].addr]
    /\ heap' = [heap EXCEPT ![returned[k].addr][i] = b]
    /\ UNCHANGED <<metaRest, metaVars, returned>>

NextMeta ==
    \/ \E getter \in Getters : Get(getter)
    \/ \E k \in 1..MaxReturned, i \in 1..MaxBufLen, b \in {255} :
          WriteBuffer(k, i, b)

SpecMeta == InitMeta /\ [][NextMeta]_vars

\* A goroutine blocked in readPacket runs again once the read can return.
FairSpec == Spec /\ WF_vars(ReceiveReturn)

--------------------------------------------------------------------------
\* DiscardRequests draining a request channel.

InitDrain == ConnInit /\ MetaInitFixed /\ DrainIdle /\ TxIdle /\ MuxIdle

\* The multiplexer sends a request on the channel (it blocks while the
\* buffer is full).
Produce(want) ==
    /\ ~chanClosed
    /\ Len(produced) < MaxRequests
    /\ Len(reqChan) < ChanCap
    /\ LET req == Request(Len(produced) + 1, want)
       IN  /\ reqChan' = Append(reqChan, req)
           /\ produced' = Append(produced, req)
    /\ UNCHANGED <<chanClosed, dpc, cur, replies, drainRest>>

\* The multiplexer closes the channel.
CloseChan ==
    /\ ~chanClosed
    /\ chanClosed' = TRUE
    /\ UNCHANGED <<reqChan, produced, dpc, cur, replies, drainRest>>

\* for req := range in: the next request is received.
RangeReceive ==
    /\ dpc = "range"
    /\ reqChan # << >>
    /\ cur' = Head(reqChan)
    /\ reqChan' = Tail(reqChan)
    /\ dpc' = "body"
    /\ UNCHANGED <<chanClosed, produced, replies, drainRest>>

\* if req.WantReply { req.Reply(false, nil) }
RangeBody ==
    /\ dpc = "body"
    /\ replies' = replies \o DiscardBody(cur)
    /\ dpc' = "range"
    /\ UNCHANGED <<reqChan, chanClosed, produced, cur, drainRest>>

\* (Faulty variant: the loop ends as soon as no request is waiting.)
RangeEndWhenEmpty ==
    /\ dpc = "range"
    /\ reqChan = << >>
    /\ dpc' = "returned"
    /\ UNCHANGED <<reqChan, chanClosed, produced, cur, replies, drainRest>>
\* range ends when the channel is closed and drained; the function returns.
RangeEnd ==
    /\ dpc = "range"
    /\ reqChan = << >>
    /\ chanClosed
    /\ dpc' = "returned"
    /\ UNCHANGED <<reqChan, chanClosed, produced, cur, replies, drainRest>>

NextDrain ==
    \/ \E want \in BOOLEAN : Produce(want)
    \/ CloseChan
    \/ RangeReceive
    \/ RangeBody
    \/ RangeEnd

SpecDrain == InitDrain /\ [][NextDrain]_vars

\* DiscardRequests runs in a goroutine of its own and a Reply call returns:
\* each step of the loop that stays possible is taken.  Nothing obliges the
\* multiplexer to send another request or to close the channel.
FairSpecDrain ==
    /\ SpecDrain
    /\ WF_vars(RangeReceive)
    /\ WF_vars(RangeBody)
    /\ WF_vars(RangeEnd)

--------------------------------------------------------------------------
\* SendMessage called by several tasks at once.  writePacket takes the
\* transport's write lock, puts the packet on the socket byte by byte, and
\* releases the lock.

InitSend == ConnInit /\ MetaInitFixed /\ DrainIdle /\ TxIdle /\ MuxIdle

\* SendMessage is called: packet := Marshal(msg).
SendStart(t, msg) ==
    /\ sender[t].pc = "idle"
    /\ Len(calls) < MaxSendCalls
    /\ calls' = Append(calls, [msg |-> msg, done |-> FALSE,
                               before |-> {c \in DOMAIN calls : calls[c].done}])
    /\ sender' = [sender EXCEPT ![t] =
                     [pc |-> "write", call |-> Len(calls) + 1,
                      todo |-> SendMessageWrites(msg), off |-> 0]]
    /\ UNCHANGED <<txLock, stream, txRest>>

\* writePacket: the write lock is taken.
WriteLock(t) ==
    /\ sender[t].pc = "write"
    /\ txLock = 0
    /\ txLock' = t
    /\ sender' = [sender EXCEPT ![t].pc = "locked"]
    /\ UNCHANGED <<stream, calls, txRest>>

\* writePacket: the next byte of the packet goes onto the socket.
WriteByte(t) ==
    /\ sender[t].pc = "locked"
    /\ sender[t].off < Len(Head(sender[t].todo))
    /\ stream' = Append(stream, [call |-> sender[t].call,
                                 byte |-> Head(sender[t].todo)[sender[t].off + 1],
                                 start |-> sender[t].off = 0])
    /\ sender' = [sender EXCEPT ![t].off = @ + 1]
    /\ UNCHANGED <<txLock, calls, txRest>>

\* writePacket: the packet is out, the lock is released and writePacket
\* returns; after its last writePacket, SendMessage returns.
WriteUnlock(t) ==
    /\ sender[t].pc = "locked"
    /\ sender[t].off = Len(Head(sender[t].todo))
    /\ txLock' = 0
    /\ IF Tail(sender[t].todo) = << >>
       THEN /\ sender' = [sender EXCEPT ![t] = SenderIdle]
            /\ calls' = [calls EXCEPT ![sender[t].call].done = TRUE]
       ELSE /\ sender' = [sender EXCEPT ![t].pc = "write", ![t].off = 0,
                                        ![t].todo = Tail(@)]
            /\ UNCHANGED calls
    /\ UNCHANGED <<stream, txRest>>

NextSend ==
    \/ \E t \in Senders, msg \in SendMsgs : SendStart(t, msg)
    \/ \E t \in Senders : WriteLock(t)
    \/ \E t \in Senders : WriteByte(t)
    \/ \E t \in Senders : WriteUnlock(t)

SpecSend == InitSend /\ [][NextSend]_vars

--------------------------------------------------------------------------
\* The connection facade: SendRequest and Wait, served by the multiplexer,
\* whose loop is the one reader of the transport.

InitMux == ConnInit /\ MetaInitFixed /\ DrainIdle /\ TxIdle /\ MuxIdle

\* A global request goes out as its type byte, its number (standing for the
\* name and payload) and WantReply as a byte; the peer's reply carries the
\* number of the request it answers.
ReplyKinds == {"globalRequestSuccess", "globalRequestFailure"}

\* The caller a reply is handed to: the one that has waited longest.
\* (Faulty variant: the one that has waited least.)
NewestWaiting(q) == q[Len(q)]
OldestWaiting(q) == Head(q)

\* SendRequest(name, wantReply, payload): the request is written; without
\* wantReply the call returns at once, with it the caller waits its turn.
SendRequest(r, want) ==
    /\ caller[r].pc = "idle"
    /\ loopErr.kind = "running"
    /\ LET w == writePacket(wire, sock, <<msgType.globalRequest, r,
                                          IF want THEN 1 ELSE 0>>)
       IN  /\ wire' = w.wire
           /\ IF w.err # NoErr
              THEN /\ caller' = [caller EXCEPT ![r] =
                         [CallerIdle EXCEPT !.pc = "done", !.want = want,
                                            !.err = MuxErr(w.err.kind)]]
                   /\ UNCHANGED pendingQ
              ELSE IF ~want
              THEN /\ caller' = [caller EXCEPT ![r] =
                         [CallerIdle EXCEPT !.pc = "done"]]
                   /\ UNCHANGED pendingQ
              ELSE /\ caller' = [caller EXCEPT ![r] =
                         [CallerIdle EXCEPT !.pc = "waiting", !.want = TRUE]]
                   /\ pendingQ' = Append(pendingQ, r)
    /\ UNCHANGED <<inbound, sock, loopErr, lastRead, waitRet, peerSeen, muxRest>>

\* The peer handles the next packet it was sent: a global request that wants
\* a reply is answered, with success or failure, in the order received.
PeerHandle(kind) ==
    /\ sock = "open"
    /\ peerSeen < Len(wire)
    /\ LET p == wire[peerSeen + 1]
       IN  IF p[1] = msgType.globalRequest /\ p[3] = 1
           THEN /\ Len(inbound) < MaxInbound
                /\ inbound' = Append(inbound, <<msgType[kind], p[2]>>)
           ELSE UNCHANGED inbound
    /\ peerSeen' = peerSeen + 1
    /\ UNCHANGED <<wire, sock, loopErr, lastRead, waitRet, caller, pendingQ, muxRest>>

\* The peer sends a disconnect packet.
PeerDisconnect(reason, message) ==
    /\ sock = "open"
    /\ Len(inbound) < MaxInbound
    /\ inbound' = Append(inbound, Marshal(Msg("disconnect", reason, message)))
    /\ UNCHANGED <<wire, sock, loopErr, lastRead, waitRet, caller, pendingQ,
                   peerSeen, muxRest>>

\* The loop has ended with error e: every waiting SendRequest returns it.
FailWaiting(e) ==
    [r \in Requests |->
        IF caller[r].pc = "waiting"
        THEN [caller[r] EXCEPT !.pc = "done", !.err = e]
        ELSE caller[r]]

\* One turn of the processing loop: read a packet and act on it.  A read
\* error ends the loop with that error, a disconnect message ends it with a
\* DisconnectError, a reply goes to the waiting caller whose turn it is.
MuxLoop ==
    /\ loopErr.kind = "running"
    /\ \E rp \in readPacketResults(inbound, sock) :
          /\ inbound' = rp.rest
          /\ lastRead' = rp.packet
          /\ LET d == decode(rp.packet)
                 e == IF rp.err # NoErr THEN MuxErr(rp.err.kind)
                      ELSE IF d.err # NoErr THEN MuxErr(d.err.kind)
                      ELSE IF d.msg.kind = "disconnect"
                      THEN DisconnectError(d.msg.n, d.msg.s)
                      ELSE IF d.msg.kind \in ReplyKinds /\ pendingQ = << >>
                      THEN MuxErr("ErrUnexpectedReply")
                      ELSE MuxErr("running")
             IN  /\ loopErr' = e
                 /\ IF e.kind # "running"
                    THEN /\ caller' = FailWaiting(e)
                         /\ pendingQ' = << >>
                    ELSE IF d.msg.kind \in ReplyKinds
                    THEN /\ caller' = [caller EXCEPT ![OldestWaiting(pendingQ)] =
                               [@ EXCEPT !.pc = "done",
                                         !.ok = (d.msg.kind = "globalRequestSuccess"),
                                         !.tag = d.msg.n]]
                         /\ pendingQ' = SelectSeq(pendingQ,
                               LAMBDA x : x # OldestWaiting(pendingQ))
                    ELSE UNCHANGED <<caller, pendingQ>>
    /\ UNCHANGED <<wire, sock, waitRet, peerSeen, muxRest>>

\* Wait: returns, once the loop has ended, the error it ended with.
Wait ==
    /\ loopErr.kind # "running"
    /\ waitRet.kind = "pending"
    /\ waitRet' = loopErr
    /\ UNCHANGED <<wire, inbound, sock, loopErr, lastRead, caller, pendingQ,
                   peerSeen, muxRest>>

\* Conn.Close and a transport failure, with the multiplexer in place.
MuxClose ==
    /\ sock' = CloseCall(sock).sock
    /\ UNCHANGED <<wire, inbound, muxVars, muxRest>>

MuxTransportFail ==
    /\ sock = "open"
    /\ sock' = "failed"
    /\ UNCHANGED <<wire, inbound, muxVars, muxRest>>

NextMux ==
    \/ \E r \in Requests, want \in BOOLEAN : SendRequest(r, want)
    \/ \E kind \in ReplyKinds : PeerHandle(kind)
    \/ \E reason \in Reasons, message \in Texts : PeerDisconnect(reason, message)
    \/ MuxLoop
    \/ Wait
    \/ MuxClose
    \/ MuxTransportFail

SpecMux == InitMux /\ [][NextMux]_vars

--------------------------------------------------------------------------
\* ReceiveMessage on every packet: one packet is pending, of any type byte
\* and any short payload, and a task receives it.
TypeBytes  == 0..255
Payloads   == UNION {[1..n -> Bytes] : n \in 0..MaxPayload}
AllPackets == {<<t>> \o pl : t \in TypeBytes, pl \in Payloads}
ConnTypes  == {msgType[k] : k \in ConnKinds}

InitDecode ==
    /\ inbound \in {<<p>> : p \in AllPackets}
    /\ wire = << >>
    /\ sock = "open"
    /\ rpc = "idle"
    /\ ret = NoRet
    /\ disconnected = FALSE
    /\ decodeFailed = FALSE
    /\ MetaInitFixed
    /\ DrainIdle
    /\ TxIdle
    /\ MuxIdle

NextDecode == ReceiveCall \/ ReceiveReturn

SpecDecode == InitDecode /\ [][NextDecode]_vars

--------------------------------------------------------------------------
\* Claims about the raw connection adapter.

\* C1 (as stated): once a Disconnect call has returned success, every later
\* SendMessage or Disconnect call on the adapter returns an error and writes
\* no packet.
C1_NoSendAfterDisconnect ==
    (ret.afterDisconnect /\ ret.op \in {"SendMessage", "Disconnect"})
        => (ret.err # NoErr /\ ~ret.wrote)

\* C2: when Close is called while a ReceiveMessage call is blocked in the
\* transport read (no packet pending), the blocked call eventually returns,
\* and what it returns is an error and no message.
C2_CloseUnblocksReceive ==
    /\ (rpc = "reading" /\ inbound = << >> /\ ret.op = "Close")
           ~> (rpc = "idle" /\ ret.op = "ReceiveMessage" /\ ret.err # NoErr)
    /\ [][(rpc = "reading" /\ inbound = << >> /\ ret.op = "Close"
               /\ rpc' = "idle")
             => (ret'.op = "ReceiveMessage" /\ ret'.err # NoErr
                   /\ ret'.msg = NilMsg)]_vars

\* C2 witness: a receive that was blocked when Close was called has returned
\* the closed-socket error.
C2_Witness ==
    /\ rpc = "idle"
    /\ ret.op = "ReceiveMessage"
    /\ ret.err = Err("ErrClosed")
    /\ sock = "closed"
    /\ inbound = << >>

\* C5 (as stated): a packet that decodes to a value that is not a connection
\* message makes ReceiveMessage return no message and a "not a valid
\* connection message" error carrying the type of the decoded value.
C5_ErrorCarriesType ==
    (/\ ret.op = "ReceiveMessage"
     /\ ret.pkt # << >>
     /\ decode(ret.pkt).err = NoErr
     /\ ~IsMessage(decode(ret.pkt).msg))
        => (/\ ret.msg = NilMsg
            /\ ret.err.kind = "NotValidConnectionMessage"
            /\ ret.err.T = TypeName(decode(ret.pkt).msg))

\* C6: ReceiveMessage returns without error only for a packet whose type byte
\* is one of the 14 connection message types, and then returns that variant
\* filled from the packet; for any other type byte it returns an error and
\* the nil message.
C6_ClosedSet ==
    ret.op = "ReceiveMessage" =>
        /\ ret.err = NoErr =>
              /\ ret.pkt # << >>
              /\ ret.pkt[1] \in ConnTypes
              /\ ret.msg.kind \in ConnKinds
              /\ msgType[ret.msg.kind] = ret.pkt[1]
              /\ ret.msg = Msg(ret.msg.kind, ret.pkt[2], << >>)
        /\ (ret.pkt # << >> /\ ret.pkt[1] \notin ConnTypes) =>
              (ret.err # NoErr /\ ret.msg = NilMsg)

\* C6 witness: a well-formed packet of a type outside the set (a disconnect
\* message) has been read and rejected.
C6_Witness ==
    /\ ret.op = "ReceiveMessage"
    /\ ret.pkt # << >>
    /\ ret.pkt[1] = msgType.disconnect
    /\ decode(ret.pkt).err = NoErr
    /\ ret.err # NoErr

\* C7 (as stated): once ReceiveMessage has returned a decode error, no later
\* ReceiveMessage or SendMessage call on the connection succeeds.
C7_DecodeErrorFatal ==
    (ret.afterDecodeError /\ ret.op \in {"ReceiveMessage", "SendMessage"})
        => ret.err # NoErr

--------------------------------------------------------------------------
\* Claims about the metadata holder.

\* C3: each of SessionID(), ClientVersion() and ServerVersion() returns a
\* fresh buffer (an address no field and no earlier result has) holding the
\* stored value, and a write into a returned buffer changes neither the
\* stored values nor any other returned buffer, so later calls still return
\* the stored value.
C3_CopyOnRead ==
    /\ [](\A i \in DOMAIN returned :
             /\ returned[i].addr \notin StoredAddrs
             /\ \A j \in DOMAIN returned :
                   i # j => returned[i].addr # returned[j].addr)
    /\ [][Len(returned') > Len(returned) =>
             LET e == returned'[Len(returned')]
             IN  heap'[e.addr] = heap[Field(e.getter)]]_vars
    /\ [][\A a \in StoredAddrs : heap'[a] = heap[a]]_vars
    /\ [][\A k \in DOMAIN returned :
             heap'[returned[k].addr] # heap[returned[k].addr] =>
                 \A a \in DOMAIN heap :
                     a # returned[k].addr => heap'[a] = heap[a]]_vars

\* C3 witness: SessionID() was called twice, the first buffer was written
\* to, and the second buffer still equals the stored session ID.
C3_Witness ==
    \E i, j \in DOMAIN returned :
        /\ i < j
        /\ returned[i].getter = "SessionID"
        /\ returned[j].getter = "SessionID"
        /\ heap[returned[i].addr] # heap[sessionID]
        /\ heap[returned[j].addr] = heap[sessionID]

--------------------------------------------------------------------------
\* Claims about DiscardRequests.

\* The negative, empty replies owed to a sequence of requests: one for each
\* request with WantReply, in order.
Wanted(reqs) == SelectSeq(reqs, LAMBDA r : r.WantReply)
Refusals(reqs) ==
    [i \in 1..Len(Wanted(reqs)) |->
        [id |-> Wanted(reqs)[i].id, ok |-> FALSE, payload |-> << >>]]

\* C4: when the request stream delivered a finite sequence of requests and
\* was closed, DiscardRequests has, on return, consumed every request and
\* made exactly one Reply(false, nil) per request with WantReply and none for
\* the others; N requests with WantReply yield N negative empty replies.
C4_DrainReplies ==
    dpc = "returned" =>
        /\ reqChan = << >>
        /\ replies = Refusals(produced)
        /\ Len(replies) = Cardinality({i \in DOMAIN produced : produced[i].WantReply})

\* C4 witness: DiscardRequests returned after MaxRequests requests of which
\* some wanted a reply and some did not.
C4_Witness ==
    /\ dpc = "returned"
    /\ Len(produced) = MaxRequests
    /\ \E i, j \in DOMAIN produced :
          produced[i].WantReply /\ ~produced[j].WantReply
    /\ Len(replies) > 1

--------------------------------------------------------------------------
\* Claims about concurrent senders.

\* Where the bytes of call c are on the socket, and what they are.
Pos(c) == {i \in DOMAIN stream : stream[i].call = c}
BytesOf(c) ==
    LET own == SelectSeq(stream, LAMBDA e : e.call = c)
    IN  [i \in 1..Len(own) |-> own[i].byte]

\* C8: for SendMessage calls made by several tasks, the bytes of a call are
\* never interleaved with another call's, a call that has returned has put
\* exactly one packet on the socket and it is the whole marshalled message,
\* and a call made after another has returned has its packet after that
\* call's packet.
C8_WholePacketsInCallOrder ==
    \A c \in DOMAIN calls :
        /\ \A i, j \in Pos(c) : \A k \in i..j : k \in Pos(c)
        /\ calls[c].done =>
              /\ Cardinality({i \in Pos(c) : stream[i].start}) = 1
              /\ BytesOf(c) = Marshal(calls[c].msg)
        /\ \A a \in calls[c].before :
              \A i \in Pos(a), j \in Pos(c) : i < j

\* C8 witness: two calls that overlapped in time have both returned, the
\* later-made one got its packet out first, and a third call made after both
\* has returned too.
C8_Witness ==
    \E a, b, c \in DOMAIN calls :
        /\ a < b
        /\ calls[a].done /\ calls[b].done /\ calls[c].done
        /\ a \notin calls[b].before
        /\ \A i \in Pos(a), j \in Pos(b) : j < i
        /\ calls[c].before = {a, b}

--------------------------------------------------------------------------
\* Claims about the connection facade.

\* The disconnect message the loop last read, if that is what it read.
ReadDisconnect ==
    /\ lastRead # << >>
    /\ decode(lastRead).err = NoErr
    /\ decode(lastRead).msg.kind = "disconnect"

--------------------------------------------------------------------------
\* Two ends of one connection, each with this adapter, on a transport that
\* loses nothing and keeps the order: SendMessage on one end, ReceiveMessage
\* on the other.

\* The messages an application can construct: every variant of the set, with
\* each value of its field.
AllMsgs == {Msg(k, n, << >>) : k \in ConnKinds, n \in Bytes}

InitTrip == ConnInit /\ MetaInitFixed /\ DrainIdle /\ TxIdle /\ MuxIdle

TripSend(msg) ==
    /\ Len(wire) < MaxTrip
    /\ SendMessage(msg)

\* The transport carries the next packet written by the sending end to the
\* receiving end.
Deliver ==
    /\ peerSeen < Len(wire)
    /\ Len(inbound) < MaxInbound
    /\ inbound' = Append(inbound, wire[peerSeen + 1])
    /\ peerSeen' = peerSeen + 1
    /\ UNCHANGED <<wire, sock, loopErr, waitRet, lastRead, caller, pendingQ,
                   muxRest>>

NextTrip ==
    \/ \E msg \in AllMsgs : TripSend(msg)
    \/ Deliver
    \/ ReceiveCall
    \/ ReceiveReturn

SpecTrip == InitTrip /\ [][NextTrip]_vars

--------------------------------------------------------------------------
\* C12: when the transport fails a call's writePacket or readPacket, the
\* adapter call returns exactly the transport's error, with no message, after
\* that one transport call: nothing was written, nothing was consumed, and
\* the write or the read was not tried again.
C12_IOErrorsPropagate ==
    (ret.op \in {"SendMessage", "Disconnect", "ReceiveMessage"}
        /\ ret.ioErr # NoErr)
      => /\ ret.err = ret.ioErr
         /\ ret.msg = NilMsg
         /\ ret.ncalls = 1
         /\ ~ret.wrote
         /\ ret.pkt = << >>

\* C12 witness: a SendMessage on a transport that has failed returned the
\* transport's I/O error.
C12_Witness ==
    /\ ret.op = "SendMessage"
    /\ sock = "failed"
    /\ ret.ioErr = Err("ErrIO")
    /\ ret.err = Err("ErrIO")

--------------------------------------------------------------------------
\* Close called at any moment: while tasks are inside SendMessage or
\* Disconnect, with their packets partly written, and before and after them.

InitClose == ConnInit /\ MetaInitFixed /\ DrainIdle /\ TxIdle /\ MuxIdle

\* Disconnect is called: packet := Marshal(&disconnectMsg{...}).
DisconnectStart(t, reason, message) ==
    /\ sender[t].pc = "idle"
    /\ Len(calls) < MaxCloseCalls
    /\ calls' = Append(calls, [msg |-> Msg("disconnect", reason, message),
                               done |-> FALSE,
                               before |-> {c \in DOMAIN calls : calls[c].done}])
    /\ sender' = [sender EXCEPT ![t] =
                     [pc |-> "write", call |-> Len(calls) + 1,
                      todo |-> DisconnectWrites(reason, message), off |-> 0]]
    /\ UNCHANGED <<txLock, stream, txRest>>

\* SendMessage is called.
CloseSendStart(t, msg) ==
    /\ Len(calls) < MaxCloseCalls
    /\ SendStart(t, msg)

\* The steps of writePacket go on while the socket is up.
SockWriteLock(t)   == sock = "open" /\ WriteLock(t)
SockWriteByte(t)   == sock = "open" /\ WriteByte(t)
SockWriteUnlock(t) == sock = "open" /\ WriteUnlock(t)

\* writePacket on a socket that is closed or has failed: it gives up the
\* lock if it holds it and returns the error; the call does not complete.
WriteFail(t) ==
    /\ sock # "open"
    /\ sender[t].pc \in {"write", "locked"}
    /\ sender' = [sender EXCEPT ![t] = SenderIdle]
    /\ txLock' = IF txLock = t THEN 0 ELSE txLock
    /\ UNCHANGED <<stream, calls, txRest>>

NextClose ==
    \/ \E t \in Senders, msg \in SendMsgs : CloseSendStart(t, msg)
    \/ \E t \in Senders, reason \in Reasons, message \in Texts :
          DisconnectStart(t, reason, message)
    \/ \E t \in Senders : SockWriteLock(t)
    \/ \E t \in Senders : SockWriteByte(t)
    \/ \E t \in Senders : SockWriteUnlock(t)
    \/ \E t \in Senders : WriteFail(t)
    \/ Close
    \/ TransportFail

SpecClose == InitClose /\ [][NextClose]_vars

\* C13: a Close call leaves the socket closed whatever the adapter is doing
\* or has done (nothing sent yet, a Disconnect or SendMessage completed,
\* failed or still being written), its result is the result of closing the
\* socket in the state the socket was in, and the calls in progress are not
\* touched by it.
C13_CloseClosesSocket ==
    /\ [](ret.op = "Close" => sock = "closed")
    /\ [][(ret'.op = "Close" /\ ret' # ret)
             => /\ sock' = "closed"
                /\ ret'.err = connClose(sock).err
                /\ UNCHANGED <<sender, txLock, calls>>]_vars

\* C13 witness: Close has returned while a Disconnect is in the middle of
\* writing its packet, after a SendMessage had completed.
C13_Witness ==
    /\ ret.op = "Close"
    /\ ret.err = NoErr
    /\ sock = "closed"
    /\ \E t \in Senders :
          /\ sender[t].pc = "locked"
          /\ sender[t].off > 0
          /\ sender[t].off < Len(Head(sender[t].todo))
          /\ calls[sender[t].call].msg.kind = "disconnect"
          /\ \E c \in calls[sender[t].call].before :
                calls[c].msg.kind # "disconnect"

--------------------------------------------------------------------------
\* Disconnect with reasons inside and outside the const block.

\* The reasons tried: the unused 0, the reserved 4, the first value past the
\* constants, a defined constant, and the largest value an integer of the
\* model holds (the type goes on to 4294967295).
ReasonsTried == {0, 4, 16, ByApplication, 2147483647}
TextsTried   == {<< >>, Bye}

InitDisconnect == ConnInit /\ MetaInitFixed /\ DrainIdle /\ TxIdle /\ MuxIdle

NextDisconnect ==
    \/ \E reason \in ReasonsTried, message \in TextsTried :
          Disconnect(reason, message)
    \/ Close
    \/ TransportFail

SpecDisconnect == InitDisconnect /\ [][NextDisconnect]_vars

\* C14: a Disconnect(reason, message) call makes one writePacket call; on a
\* transport that takes it, the wire grows by exactly one packet, and that
\* packet is the disconnect type byte, the number reason as given (inside the
\* const block or not), and the message as given.
C14_DisconnectAsGiven ==
    /\ [](ret.op = "Disconnect" => ret.ncalls = 1)
    /\ [][(ret'.op = "Disconnect" /\ (ret' # ret \/ wire' # wire))
             => IF sock = "open"
                THEN /\ ret'.err = NoErr
                     /\ wire' = Append(wire,
                           <<msgType.disconnect, ret'.arg.n, Len(ret'.arg.s)>>
                               \o ret'.arg.s)
                     /\ decode(wire'[Len(wire')]) =
                           [msg |-> ret'.arg, err |-> NoErr]
                ELSE /\ ret'.err # NoErr
                     /\ wire' = wire]_vars

\* C14 witness: Disconnect(0, "") and then Disconnect(4, "bye") have put
\* their two packets on the wire.
C14_Witness ==
    /\ ret.op = "Disconnect"
    /\ ret.err = NoErr
    /\ ret.arg = Msg("disconnect", 4, Bye)
    /\ wire = << <<msgType.disconnect, 0, 0>>,
                 <<msgType.disconnect, 4, 3>> \o Bye >>

--------------------------------------------------------------------------
\* C15: DiscardRequests returns only when the channel has been closed and
\* every request sent on it has been received, never while the channel is
\* open; once the channel is closed it does return; and while it runs every
\* request sent on the channel is eventually received, so a sender that found
\* the channel full finds room again.
C15_DrainsUntilClosed ==
    /\ [](dpc = "returned" => (chanClosed /\ reqChan = << >>))
    /\ chanClosed ~> (dpc = "returned")
    /\ \A k \in 1..MaxRequests :
          (Len(produced) >= k) ~> (Len(produced) - Len(reqChan) >= k)
    /\ (Len(reqChan) = ChanCap) ~> (Len(reqChan) < ChanCap)

\* C15 witness: DiscardRequests has returned after more requests than the
\* channel buffers at once, the last of them sent just before the close.
C15_Witness ==
    /\ dpc = "returned"
    /\ chanClosed
    /\ Len(produced) > ChanCap
    /\ cur = produced[Len(produced)]

--------------------------------------------------------------------------
\* The adapter's operations and the metadata getters on one connection.

\* sshConn.User: returns the string c.user.  The value handed to the caller
\* is recorded like a returned buffer; a Go string cannot be written to.
GetUser ==
    /\ Len(returned) < MaxFrameGets
    /\ heap' = Append(heap, user)
    /\ returned' = Append(returned, [getter |-> "User", addr |-> Len(heap) + 1])
    /\ UNCHANGED <<metaRest, metaVars>>

FrameGet(getter) ==
    /\ Len(returned) < MaxFrameGets
    /\ Get(getter)

\* The value a getter reads.
Stored(getter) == IF getter = "User" THEN user ELSE heap[Field(getter)]

\* The metadata as the handshake left it: some user, some session ID.
InitFrame ==
    /\ ConnInit
    /\ DrainIdle
    /\ TxIdle
    /\ MuxIdle
    /\ user \in {<< >>, <<117>>}
    /\ \E sid \in {<< >>, <<1, 2>>} : heap = <<sid, <<7>>, <<9>> >>
    /\ sessionID = 1
    /\ clientVersion = 2
    /\ serverVersion = 3
    /\ returned = << >>

FrameSend(msg) ==
    /\ Len(wire) < MaxFrameWire
    /\ SendMessage(msg)

FrameDisconnect(reason, message) ==
    /\ Len(wire) < MaxFrameWire
    /\ Disconnect(reason, message)

NextFrame ==
    \/ \E msg \in SendMsgs : FrameSend(msg)
    \/ \E reason \in Reasons, message \in Texts : FrameDisconnect(reason, message)
    \/ ReceiveCall
    \/ ReceiveReturn
    \/ Close
    \/ \E packet \in {Marshal(Msg("channelData", 0, << >>)), <<255, 0>>} :
          PeerSend(packet)
    \/ \E getter \in Getters : FrameGet(getter)
    \/ GetUser

SpecFrame == InitFrame /\ [][NextFrame]_vars

\* C16: no step of SendMessage, ReceiveMessage, Disconnect, Close or a getter
\* changes the stored user, session ID, client version or server version
\* (neither which buffer a field refers to nor the bytes in it), and every
\* value a getter has returned equals the stored one.
C16_MetadataWriteOnce ==
    /\ [][/\ user' = user
          /\ sessionID' = sessionID
          /\ clientVersion' = clientVersion
          /\ serverVersion' = serverVersion
          /\ \A a \in StoredAddrs : heap'[a] = heap[a]]_vars
    /\ [](\A k \in DOMAIN returned :
             heap[returned[k].addr] = Stored(returned[k].getter))

\* C16 witness: after a packet was written, a ReceiveMessage failed to decode
\* and Close was called, SessionID() returned the session ID the connection
\* was built with.
C16_Witness ==
    /\ Len(wire) = MaxFrameWire
    /\ decodeFailed
    /\ sock = "closed"
    /\ ret.op = "Close"
    /\ returned # << >>
    /\ returned[1].getter = "SessionID"
    /\ heap[returned[1].addr] = <<1, 2>>
    /\ heap[sessionID] = <<1, 2>>

--------------------------------------------------------------------------
\* Disconnect called with the constants of the const block.

InitReasons == ConnInit /\ MetaInitFixed /\ DrainIdle /\ TxIdle /\ MuxIdle

NextReasons ==
    \/ \E reason \in DefinedReasons, message \in Texts :
          Disconnect(reason, message)
    \/ Close

SpecReasons == InitReasons /\ [][NextReasons]_vars

\* C17 (as stated): the defined reason constants, which are what these
\* Disconnect calls put on the wire, are exactly 15 and are the values 1-3
\* and 5-15.
C17_FifteenReasons ==
    /\ \A i \in DOMAIN wire : wire[i][2] \in DefinedReasons
    /\ Cardinality(DefinedReasons) = 15
    /\ DefinedReasons = (1..3) \cup (5..15)

\* C17 (amended): the defined reason constants are exactly 14 and are the
\* values 1-3 and 5-15, 4 not among them; a Disconnect called with a defined
\* constant carries one of these values.
C17_FourteenReasons ==
    /\ Cardinality(DefinedReasons) = 14
    /\ DefinedReasons = (1..3) \cup (5..15)
    /\ 4 \notin DefinedReasons
    /\ ret.op = "Disconnect" => ret.arg.n \in (1..15) \ {4}

\* C17 witness: Disconnect has been called with the smallest and with the
\* largest constant, and both packets are on the wire.
C17_Witness ==
    /\ ret.op = "Disconnect"
    /\ ret.arg.n = IllegalUserName
    /\ Len(wire) = 2
    /\ wire[1][2] = HostNotAllowedToConnect
    /\ wire[2][2] = IllegalUserName

--------------------------------------------------------------------------
\* ReceiveMessage on a transport in which packets queue up.

InitRecv == ConnInit /\ MetaInitFixed /\ DrainIdle /\ TxIdle /\ MuxIdle

\* A packet from the peer arrives behind those already waiting.
QueueSend(packet) ==
    /\ sock = "open"
    /\ Len(inbound) < MaxQueue
    /\ inbound' = Append(inbound, packet)
    /\ UNCHANGED <<wire, sock, rpc, ret, disconnected, decodeFailed, connRest>>

NextRecv ==
    \/ \E packet \in PeerPackets : QueueSend(packet)
    \/ ReceiveCall
    \/ ReceiveReturn
    \/ Close
    \/ TransportFail

SpecRecv == InitRecv /\ [][NextRecv]_vars

\* A ReceiveMessage call returns in this step.
ReceiveReturns == rpc = "reading" /\ rpc' = "idle"

\* The returning call has taken the packet at the head of the queue, and what
\* it returns is the decoding of that packet or an error and no message.
TakesHead ==
    /\ inbound # << >>
    /\ inbound' = Tail(inbound)
    /\ ret'.pkt = Head(inbound)
    /\ ret'.ncalls = 1
    /\ ret'.err = NoErr => ret'.msg = decode(Head(inbound)).msg
    /\ ret'.err # NoErr => ret'.msg = NilMsg

\* Outside a returning call no packet leaves the queue or changes place:
\* the queue stays, or one packet arrives at its end.
QueueKept ==
    \/ inbound' = inbound
    \/ \E packet \in PeerPackets : inbound' = Append(inbound, packet)

\* C18 (as stated): every ReceiveMessage call that returns, with a message or
\* with an error, has consumed exactly one packet, the one at the head of the
\* arrival queue, and a returned message is the decoding of that packet;
\* nothing else takes or moves a packet.
C18_EveryCallConsumes ==
    [][IF ReceiveReturns THEN TakesHead ELSE QueueKept]_vars

\* C18 (amended): a ReceiveMessage call makes one read; when the read gives a
\* packet the call has consumed exactly that one packet, the head of the
\* arrival queue, whether it returns its decoding or a decoding error; when
\* the read fails the call returns the read error and has consumed nothing;
\* nothing else takes or moves a packet.
C18_OneReadInOrder ==
    [][IF ReceiveReturns
       THEN \/ TakesHead /\ ret'.ioErr = NoErr
            \/ /\ inbound' = inbound
               /\ ret'.ioErr # NoErr
               /\ ret'.err = ret'.ioErr
               /\ ret'.msg = NilMsg
               /\ ret'.pkt = << >>
               /\ ret'.ncalls = 1
       ELSE QueueKept]_vars

\* C18 witness: of two packets that arrived, the first could not be decoded
\* and was consumed by a call that returned the error, the next was returned
\* as a message by the following call, and a third is waiting behind.
C18_Witness ==
    /\ rpc = "idle"
    /\ ret.op = "ReceiveMessage"
    /\ ret.afterDecodeError
    /\ ret.err = NoErr
    /\ ret.msg = Msg("globalRequest", 1, << >>)
    /\ ret.pkt = Marshal(Msg("globalRequest", 1, << >>))
    /\ inbound = <<Marshal(Msg("channelData", 0, << >>))>>

--------------------------------------------------------------------------
\* C19: Close makes no writePacket call: a Close step leaves the packets
\* written to the transport exactly as they were, in every state, so no
\* disconnect message goes out with it and all the peer can see of a Close
\* is the socket closing.
C19_CloseWritesNothing ==
    /\ [](ret.op = "Close" => (~ret.wrote /\ ret.ncalls = 0))
    /\ [][(ret'.op = "Close" /\ ret' # ret)
             => (wire' = wire /\ sock' = "closed")]_vars

\* C19 witness: Close returned on a connection on which a message had been
\* sent and no Disconnect: the wire holds that message only.
C19_Witness ==
    /\ ret.op = "Close"
    /\ ret.err = NoErr
    /\ sock = "closed"
    /\ ~disconnected
    /\ wire = <<Marshal(Msg("channelData", 0, << >>))>>

==========================================================================
